---- MODULE Spec2Model ----
(***************************************************************************)
(* pkgstats (src/main.go): the incremental search-and-cache pipeline.      *)
(* One goroutine executes run(): it loads the CSV cache, drives Search     *)
(* over the pages of the repository search, scans every page with          *)
(* searchInRepositories, merges and rewrites the cache file.  main() waits *)
(* for the signal context and then for the goroutine.                      *)
(*                                                                         *)
(* Environment assumptions: the file-system calls of run() (Mkdir,         *)
(* OpenFile, ReadAll, Truncate, Seek, Write) succeed; the context is the   *)
(* one of signal.NotifyContext, so ctx.Err() is only ever Canceled.        *)
(***************************************************************************)
EXTENDS Integers, Sequences, FiniteSets, TLC

\* ---------------------------------------------------------------- bounds
MaxRows == 2
MaxPageLen == 2
MaxFiles == 2
MaxReqs == 2
MaxFetches == 2

\* ---------------------------------------------------------------- inputs
RepoIDs == {"r1", "r2"}
\* GetStargazersCount of each repository
StargazersCount == [ k \in RepoIDs |-> IF k = "r1" THEN 2 ELSE 1 ]
PackageName == "pkg"
ModPaths == {PackageName, "other"}

\* the star-count fields a cache row can hold, as character sequences
StarFields == { <<"1">>, <<"1", "0">>, <<"-", "1">>, <<"x">> }
UsedFields == {"true", "false"}
Rows == { <<n, u, s>> : n \in RepoIDs, u \in UsedFields, s \in StarFields }

SeqsUpTo(S, n) == UNION { [1..k -> S] : k \in 0..n }

\* the cache file as found at start: run() writes one row per repository, so
\* no name occurs twice; the fields may have been edited since
CacheFiles ==
    { f \in SeqsUpTo(Rows, MaxRows) :
        \A i, j \in DOMAIN f : i # j => f[i][1] # f[j][1] }

\* a repository descriptor of a search page (github.Repository)
Candidates ==
    { [ name |-> n, stars |-> StargazersCount[n],
        archived |-> a, disabled |-> d, fork |-> f ] :
      n \in RepoIDs, a \in BOOLEAN, d \in BOOLEAN, f \in BOOLEAN }

NoRepo == [ name |-> "none", stars |-> 0,
            archived |-> FALSE, disabled |-> FALSE, fork |-> FALSE ]

\* one require line of a parsed go.mod (modfile.Require)
Requires == [ path : ModPaths, indirect : BOOLEAN ]

\* what DownloadContents + io.ReadAll + Close + modfile.Parse yield for a file
FileOutcomes ==
    { [ kind |-> "dlErr", reqs |-> <<>> ], [ kind |-> "parseErr", reqs |-> <<>> ] }
    \cup { [ kind |-> "ok", reqs |-> r ] : r \in SeqsUpTo(Requires, MaxReqs) }

NoSkip == << "none", "none" >>

EmptyMap == [ k \in {} |-> NoRepo ]

\* ------------------------------------------------------------- functions
Digits == {"0", "1", "2", "3", "4", "5", "6", "7", "8", "9"}

DigitVal(c) ==
    CASE c = "0" -> 0 [] c = "1" -> 1 [] c = "2" -> 2 [] c = "3" -> 3
      [] c = "4" -> 4 [] c = "5" -> 5 [] c = "6" -> 6 [] c = "7" -> 7
      [] c = "8" -> 8 [] OTHER -> 9

RECURSIVE DecVal(_)
DecVal(s) == IF s = <<>> THEN 0
             ELSE 10 * DecVal(SubSeq(s, 1, Len(s) - 1)) + DigitVal(s[Len(s)])

\* strconv.Atoi: an optional sign followed by at least one decimal digit
Atoi(s) ==
    LET signed == Len(s) > 0 /\ s[1] \in {"+", "-"}
        body   == IF signed THEN Tail(s) ELSE s
    IN  IF body = <<>> \/ \E i \in 1..Len(body) : body[i] \notin Digits
        THEN [ ok |-> FALSE, val |-> 0 ]
        ELSE [ ok |-> TRUE,
               val |-> IF s[1] = "-" THEN 0 - DecVal(body) ELSE DecVal(body) ]

DigitChar(d) ==
    CASE d = 0 -> "0" [] d = 1 -> "1" [] d = 2 -> "2" [] d = 3 -> "3"
      [] d = 4 -> "4" [] d = 5 -> "5" [] d = 6 -> "6" [] d = 7 -> "7"
      [] d = 8 -> "8" [] OTHER -> "9"

RECURSIVE DecStr(_)
DecStr(n) == IF n < 10 THEN << DigitChar(n) >>
             ELSE Append(DecStr(n \div 10), DigitChar(n % 10))

\* strconv.Itoa
Itoa(n) == IF n < 0 THEN << "-" >> \o DecStr(0 - n) ELSE DecStr(n)

\* variant of LoadRecords that drops the error of Atoi and keeps its zero
RECURSIVE LoadRecordsIgnoringErr(_, _)
LoadRecordsIgnoringErr(records, acc) ==
    IF records = <<>> THEN [ ok |-> TRUE, results |-> acc ]
    ELSE LET record == Head(records)
         IN  LoadRecordsIgnoringErr(Tail(records),
                [ k \in DOMAIN acc \cup {record[1]} |->
                    IF k = record[1]
                    THEN [ name |-> record[1], used |-> record[2] = "true",
                           stars |-> Atoi(record[3]).val ]
                    ELSE acc[k] ])

\* run, lines 95-105: the rows of the file become the cache map; the first
\* row whose star count does not parse aborts the load
RECURSIVE LoadRecords(_, _)
LoadRecords(records, acc) ==
    IF records = <<>> THEN [ ok |-> TRUE, results |-> acc ]
    ELSE LET record == Head(records)
             stars  == Atoi(record[3])
         IN  IF ~stars.ok THEN [ ok |-> FALSE, results |-> acc ]
             ELSE LoadRecords(Tail(records),
                    [ k \in DOMAIN acc \cup {record[1]} |->
                        IF k = record[1]
                        THEN [ name |-> record[1], used |-> record[2] = "true",
                               stars |-> stars.val ]
                        ELSE acc[k] ])

\* run, lines 135-140: new results are added, existing keys are kept
MergeResults(results, newResults) ==
    [ k \in DOMAIN results \cup DOMAIN newResults |->
        IF k \in DOMAIN results THEN results[k] ELSE newResults[k] ]

\* Search, lines 240-242: the page's results overwrite the accumulated ones
UpdateResults(results, found) ==
    [ k \in DOMAIN results \cup DOMAIN found |->
        IF k \in DOMAIN found THEN found[k] ELSE results[k] ]

\* lo.MapToSlice ranges over a Go map: any order of the keys can come out
MapOrders(m) ==
    { o \in [1..Cardinality(DOMAIN m) -> DOMAIN m] :
        \A i, j \in DOMAIN o : i # j => o[i] # o[j] }

MapToSlice(m, o) == [ i \in DOMAIN o |-> m[o[i]] ]

\* variant of Less with the comparison turned around
LessAscending(a, b) == a.stars < b.stars

\* run, lines 148-150: the less function handed to sort.Slice
Less(a, b) == a.stars > b.stars

Swap(data, i, j) ==
    [ data EXCEPT ![i] = data[j], ![j] = data[i] ]

\* sort.Slice on a slice of at most 12 elements is insertionSortLessFunc:
\*   for i := a + 1; i < b; i++ {
\*       for j := i; j > a && less(j, j-1); j-- { swap(j, j-1) } }
RECURSIVE SinkDown(_, _)
SinkDown(data, j) ==
    IF j > 1 /\ Less(data[j], data[j - 1])
    THEN SinkDown(Swap(data, j, j - 1), j - 1)
    ELSE data

RECURSIVE InsertionSort(_, _)
InsertionSort(data, i) ==
    IF i > Len(data) THEN data ELSE InsertionSort(SinkDown(data, i), i + 1)

\* variant of SortSlice that leaves the slice as MapToSlice produced it
SortSliceOmitted(data) == data

SortSlice(data) == InsertionSort(data, 2)

\* run, lines 167-172: one CSV record per result
CsvRecord(r) == << r.name, IF r.used THEN "true" ELSE "false", Itoa(r.stars) >>

WriteAll(sortedResults) == [ i \in DOMAIN sortedResults |-> CsvRecord(sortedResults[i]) ]

\* variant of Ineligible that lets forks through
IneligibleButForks(repo) == repo.archived \/ repo.disabled

\* searchInRepositories, line 283
Ineligible(repo) == repo.archived \/ repo.disabled \/ repo.fork

\* variant of InCache that never finds the repository
InCacheMissed(c, repo) == FALSE

\* variant of InCache that also takes the first repository for cached
InCacheOrFirstRepo(c, repo) == repo.name \in DOMAIN c \cup {"r1"}

\* searchInRepositories, line 288
InCache(c, repo) == repo.name \in DOMAIN c

\* variant of RequiresPackage that does not look at Indirect
RECURSIVE RequiresPackageAnyKind(_)
RequiresPackageAnyKind(reqs) ==
    IF reqs = <<>> THEN FALSE
    ELSE IF Head(reqs).path = PackageName THEN TRUE
    ELSE RequiresPackageAnyKind(Tail(reqs))

\* searchInRepositories, lines 350-357: the require loop of one go.mod
RECURSIVE RequiresPackage(_)
RequiresPackage(reqs) ==
    IF reqs = <<>> THEN FALSE
    ELSE IF Head(reqs).path = PackageName /\ ~Head(reqs).indirect THEN TRUE
    ELSE RequiresPackage(Tail(reqs))

\* searchInRepositories, lines 323-358: one file of the code search; a
\* download or parse error skips the file, a direct requirement sets used,
\* and nothing resets it
FileUsed(u, f) == IF f.kind = "ok" /\ RequiresPackage(f.reqs) THEN TRUE ELSE u

\* ----------------------------------------------------------------- state
VARIABLES
    file,         \* the rows of cache/<pkg>.csv
    file0,        \* history: the rows found at start
    cache,        \* run's results map, shared with searchResult.cache
    loaded,       \* history: the map as it was when the load finished
    pc,           \* where the goroutine of run() stands
    mainPc,       \* where main() stands
    exit,         \* exit status of the process, -1 while it runs
    cancelled,    \* ctx.Done() is closed
    optsPage,     \* opts.Page
    nextPage,     \* resp.NextPage of the last search response, -1 before
    results,      \* Search's results map
    pageResults,  \* searchInRepositories' results map
    idx,          \* descriptors of the page the range loop has consumed
    repo,         \* the loop variable repo
    fidx,         \* files of the code search the range loop has consumed
    used,         \* repoSearchResult.used
    directSeen,   \* history: a parsed go.mod of repo had a direct requirement
    indirectSeen, \* history: a parsed go.mod of repo had an indirect one
    interrupted,  \* history: a call of repo's inspection ended by the cancellation
    lastSkip,     \* history: name and reason of the latest skip, if no
                  \* repository was inspected since
    fetchCalls,   \* history: the page numbers of the Search.Repositories calls
    inspected,    \* history: the repositories a Search.Code call was issued for
    persisted     \* history: run() reached the rewrite of the file

vars == << file, file0, cache, loaded, pc, mainPc, exit, cancelled,
           optsPage, nextPage, results, pageResults, idx, repo, fidx, used,
           directSeen, indirectSeen, interrupted, lastSkip, fetchCalls, inspected,
           persisted >>

fileVars == << idx, repo, fidx, used, directSeen, indirectSeen, interrupted >>
scanVars == << fileVars, lastSkip >>
mainVars == << mainPc, cancelled, file0 >>

Running == exit = -1

Init ==
    /\ file \in CacheFiles
    /\ file0 = file
    /\ cache = EmptyMap
    /\ loaded = EmptyMap
    /\ pc = "start"
    /\ mainPc = "waitCtx"
    /\ exit = -1
    /\ cancelled = FALSE
    /\ optsPage = 0
    /\ nextPage = -1
    /\ results = EmptyMap
    /\ pageResults = EmptyMap
    /\ idx = 0
    /\ repo = NoRepo
    /\ fidx = 0
    /\ used = FALSE
    /\ directSeen = FALSE
    /\ indirectSeen = FALSE
    /\ interrupted = FALSE
    /\ lastSkip = NoSkip
    /\ fetchCalls = <<>>
    /\ inspected = {}
    /\ persisted = FALSE

\* main, lines 34-36: run returned an error, log.Fatalf ends the process
Fatal ==
    /\ pc' = "fatal"
    /\ exit' = 1

\* ------------------------------------------------------------------- run
\* run, lines 52-105: flags, cache file, the load of the cache
RunLoad ==
    /\ Running /\ pc = "start"
    /\ \E flagsOk \in BOOLEAN :
        LET l == LoadRecords(file, EmptyMap)
        IN  IF flagsOk /\ l.ok
            THEN /\ cache' = l.results
                 /\ loaded' = l.results
                 /\ pc' = "searchLoop"
                 /\ exit' = exit
            ELSE /\ Fatal
                 /\ UNCHANGED << cache, loaded >>
    /\ UNCHANGED << file, mainVars, optsPage, nextPage, results, pageResults,
                    scanVars, fetchCalls, inspected, persisted >>

\* run, lines 131-180, after Search returned newResults with a nil error:
\* merge, sort, truncate and rewrite the file, return nil
RunFinish(newResults) ==
    /\ LET merged == MergeResults(cache, newResults)
       IN  /\ cache' = merged
           /\ \E o \in MapOrders(merged) :
                file' = WriteAll(SortSlice(MapToSlice(merged, o)))
    /\ persisted' = TRUE
    /\ pc' = "returned"
    /\ exit' = exit

\* ---------------------------------------------------------------- Search
CurrentPage == IF optsPage = 0 THEN 1 ELSE optsPage

\* variant of SearchLoop without the cancellation check of lines 217-223
SearchLoopIgnoringCancel ==
    /\ Running /\ pc = "searchLoop"
    /\ Len(fetchCalls) < MaxFetches
    /\ fetchCalls' = Append(fetchCalls, optsPage)
    /\ pc' = "fetch"
    /\ UNCHANGED << file, cache, persisted, exit, loaded, mainVars, optsPage,
                    nextPage, results, pageResults, scanVars, inspected >>

\* Search, lines 215-227: the cancellation check at the head of the loop,
\* then the call of Search.Repositories is issued
SearchLoop ==
    /\ Running /\ pc = "searchLoop"
    /\ IF cancelled
       THEN /\ RunFinish(results)
            /\ UNCHANGED fetchCalls
       ELSE /\ Len(fetchCalls) < MaxFetches
            /\ fetchCalls' = Append(fetchCalls, optsPage)
            /\ pc' = "fetch"
            /\ UNCHANGED << file, cache, persisted, exit >>
    /\ UNCHANGED << loaded, mainVars, optsPage, nextPage, results,
                    pageResults, scanVars, inspected >>

\* Search, lines 227-233: Search.Repositories returns.  A cancelled context
\* makes the call return ctx.Err(); any error ends Search with that error and
\* run returns it (line 132) without touching the file
SearchRepositoriesReturn ==
    /\ Running /\ pc = "fetch"
    /\ IF cancelled
       THEN /\ Fatal
            /\ UNCHANGED << nextPage, pageResults, idx >>
       ELSE \/ /\ Fatal
               /\ UNCHANGED << nextPage, pageResults, idx >>
            \/ /\ \E np \in {0, CurrentPage + 1} : nextPage' = np
               /\ idx' = 0
               /\ pageResults' = EmptyMap
               /\ pc' = "scanLoop"
               /\ exit' = exit
    /\ UNCHANGED << file, cache, loaded, mainVars, optsPage, results, repo,
                    fidx, used, directSeen, indirectSeen, interrupted, lastSkip,
                    fetchCalls, inspected, persisted >>

\* Search, lines 233-246, once searchInRepositories returned (always with a
\* nil error under a cancel-only context): the page's results are merged;
\* the break of line 245 leaves the select only, so the loop goes on
ScanReturn ==
    /\ results' = UpdateResults(results, pageResults)
    /\ pc' = IF nextPage = 0 THEN "searchLoop" ELSE "pageSleep"

\* Search, lines 248-254: the pagination delay (cut short by cancellation),
\* then the next page is selected
PageSleepReturn ==
    /\ Running /\ pc = "pageSleep"
    /\ optsPage' = nextPage
    /\ pc' = "searchLoop"
    /\ UNCHANGED << file, cache, loaded, mainVars, exit, nextPage, results,
                    pageResults, scanVars, fetchCalls, inspected, persisted >>

\* -------------------------------------------------- searchInRepositories
\* The range loops read the page and the file list front to back and nothing
\* else looks at them, so the model draws each element, or the end of the
\* slice, when the loop reaches it.

\* the next iteration of the range loop of line 273: the locals of the
\* finished iteration (repo, files, repoSearchResult) go out of scope
NextRepo ==
    /\ pc' = "scanLoop"
    /\ repo' = NoRepo
    /\ fidx' = 0
    /\ used' = FALSE
    /\ directSeen' = FALSE
    /\ indirectSeen' = FALSE
    /\ interrupted' = FALSE
    /\ lastSkip' = NoSkip

\* line 365: results[repo.GetFullName()] = repoSearchResult
Record(u) ==
    pageResults' =
        [ k \in DOMAIN pageResults \cup {repo.name} |->
            IF k = repo.name
            THEN [ name |-> repo.name, used |-> u, stars |-> repo.stars ]
            ELSE pageResults[k] ]

\* searchInRepositories, lines 273-306 and 374: cancellation check, end of
\* the page, the two skips, then the call of Search.Code is issued
ScanLoop ==
    /\ Running /\ pc = "scanLoop"
    /\ IF cancelled
       THEN /\ ScanReturn
            /\ UNCHANGED << idx, repo, inspected, lastSkip >>
       ELSE \/ /\ ScanReturn
               /\ UNCHANGED << idx, repo, inspected, lastSkip >>
            \/ /\ idx < MaxPageLen
               /\ idx' = idx + 1
               /\ \E r \in Candidates :
                    IF Ineligible(r)
                    THEN /\ lastSkip' = << r.name, "ineligible" >>
                         /\ UNCHANGED << pc, repo, inspected >>
                    ELSE IF InCache(cache, r)
                    THEN /\ lastSkip' = << r.name, "cached" >>
                         /\ UNCHANGED << pc, repo, inspected >>
                    ELSE /\ repo' = r
                         /\ pc' = "codeSearch"
                         /\ inspected' = inspected \cup {r.name}
                         /\ lastSkip' = NoSkip
               /\ UNCHANGED results
    /\ UNCHANGED << file, cache, loaded, mainVars, exit, optsPage, nextPage,
                    pageResults, fidx, used, directSeen, indirectSeen, interrupted,
                    fetchCalls, persisted >>

\* searchInRepositories, lines 300-319: Search.Code returns; an error skips
\* the repository without a result and without the delay
SearchCodeReturn ==
    /\ Running /\ pc = "codeSearch"
    /\ IF cancelled
       THEN NextRepo
       ELSE \/ NextRepo
            \/ /\ pc' = "files"
               /\ fidx' = 0
               /\ used' = FALSE
               /\ directSeen' = FALSE
               /\ indirectSeen' = FALSE
               /\ interrupted' = FALSE
               /\ UNCHANGED << repo, lastSkip >>
    /\ UNCHANGED << file, cache, loaded, mainVars, exit, optsPage, nextPage,
                    results, pageResults, idx, fetchCalls, inspected,
                    persisted >>

\* searchInRepositories, lines 321-359: the next go.mod of the code search is
\* downloaded, read, parsed and searched; under a cancelled context the
\* download fails
DownloadReturn ==
    /\ Running /\ pc = "files"
    /\ fidx < MaxFiles
    /\ fidx' = fidx + 1
    /\ \E f \in FileOutcomes :
         /\ cancelled => f.kind = "dlErr"
         /\ used' = FileUsed(used, f)
         /\ directSeen' =
              (directSeen \/ (f.kind = "ok" /\ \E i \in DOMAIN f.reqs :
                    f.reqs[i].path = PackageName /\ ~f.reqs[i].indirect))
         /\ indirectSeen' =
              (indirectSeen \/ (f.kind = "ok" /\ \E i \in DOMAIN f.reqs :
                    f.reqs[i].path = PackageName /\ f.reqs[i].indirect))
         /\ interrupted' = (interrupted \/ cancelled)
    /\ UNCHANGED << file, cache, loaded, pc, mainVars, exit, optsPage,
                    nextPage, results, pageResults, idx, repo, lastSkip,
                    fetchCalls, inspected, persisted >>

\* searchInRepositories, lines 361-367: the files are exhausted, the result
\* is recorded and the per-repository delay begins
RecordResult ==
    /\ Running /\ pc = "files"
    /\ Record(used)
    /\ pc' = "repoSleep"
    /\ UNCHANGED << file, cache, loaded, mainVars, exit, optsPage, nextPage,
                    results, scanVars, fetchCalls, inspected, persisted >>

\* searchInRepositories, lines 368-370: the per-repository delay ends, by
\* its timer or at once when the context is cancelled
RepoSleepReturn ==
    /\ Running /\ pc = "repoSleep"
    /\ NextRepo
    /\ UNCHANGED << file, cache, loaded, mainVars, exit, optsPage, nextPage,
                    results, pageResults, idx, fetchCalls, inspected,
                    persisted >>

\* ------------------------------------------------------------------ main
\* the OS delivers SIGINT or SIGTERM: signal.NotifyContext cancels ctx
Signal ==
    /\ Running /\ ~cancelled
    /\ cancelled' = TRUE
    /\ UNCHANGED << file, file0, cache, loaded, pc, mainPc, exit, optsPage,
                    nextPage, results, pageResults, scanVars, fetchCalls,
                    inspected, persisted >>

\* main, lines 40-43: <-ctx.Done() returns
MainCtxDone ==
    /\ Running /\ mainPc = "waitCtx" /\ cancelled
    /\ mainPc' = "waitWg"
    /\ UNCHANGED << file, file0, cache, loaded, pc, exit, cancelled,
                    optsPage, nextPage, results, pageResults, scanVars,
                    fetchCalls, inspected, persisted >>

\* variant of MainWgWait that does not wait for the goroutine
MainWgWaitNoWait ==
    /\ Running /\ mainPc = "waitWg"
    /\ mainPc' = "done"
    /\ exit' = 0
    /\ UNCHANGED << file, file0, cache, loaded, pc, cancelled,
                    optsPage, nextPage, results, pageResults, scanVars,
                    fetchCalls, inspected, persisted >>

\* main, lines 46-50: wg.Wait() returns once run returned nil; main ends
MainWgWait ==
    /\ Running /\ mainPc = "waitWg" /\ pc = "returned"
    /\ mainPc' = "done"
    /\ exit' = 0
    /\ UNCHANGED << file, file0, cache, loaded, pc, cancelled,
                    optsPage, nextPage, results, pageResults, scanVars,
                    fetchCalls, inspected, persisted >>

Next ==
    \/ RunLoad
    \/ SearchLoop
    \/ SearchRepositoriesReturn
    \/ PageSleepReturn
    \/ ScanLoop
    \/ SearchCodeReturn
    \/ DownloadReturn
    \/ RecordResult
    \/ RepoSleepReturn
    \/ Signal
    \/ MainCtxDone
    \/ MainWgWait

Spec == Init /\ [][Next]_vars

\* a step of the goroutine of main, lines 32-37, which runs run
PipelineStep ==
    \/ RunLoad
    \/ SearchLoop
    \/ SearchRepositoriesReturn
    \/ PageSleepReturn
    \/ ScanLoop
    \/ SearchCodeReturn
    \/ DownloadReturn
    \/ RecordResult
    \/ RepoSleepReturn

\* a step of main after the goroutine was started, lines 40-50
MainStep == MainCtxDone \/ MainWgWait

\* the goroutine and main keep running while they have a step to take; the
\* signal is the environment's and is never forced
FairSpec == Spec /\ WF_vars(PipelineStep) /\ WF_vars(MainStep)

\* ================================================================ claims
InspectPcs == {"codeSearch", "files", "repoSleep"}

\* the file holds the CSV record of entry e
FileHas(e) == \E i \in DOMAIN file : file[i] = CsvRecord(e)

\* the star count a written row reads back as
RowStars(row) == Atoi(row[3]).val

\* what another run of lines 143-176 over the map m could write
Persists(m) == { WriteAll(SortSlice(MapToSlice(m, o))) : o \in MapOrders(m) }

\* a star-count field that is a decimal integer, with or without a sign
IsInteger(s) ==
    LET body == IF s # <<>> /\ s[1] \in {"+", "-"} THEN Tail(s) ELSE s
    IN  body # <<>> /\ \A i \in DOMAIN body : body[i] \in Digits

\* a star-count field that is a non-negative decimal integer
IsNonNegativeInteger(s) == s # <<>> /\ \A i \in DOMAIN s : s[i] \in Digits

\* the load failed before anything else happened
LoadRejected ==
    /\ pc \in {"start", "fatal"}
    /\ fetchCalls = <<>>
    /\ inspected = {}
    /\ ~persisted
    /\ file = file0

\* C1: a signal that arrives once the search is under way always ends the
\* run with the file rewritten: it holds every loaded entry and every
\* RepoResult the Scanner recorded.
C1_SignalAlwaysPersists ==
    (cancelled /\ ~Running /\ fetchCalls # <<>>) =>
        /\ \A k \in DOMAIN loaded : FileHas(loaded[k])
        /\ \A k \in DOMAIN results : FileHas(results[k])
        /\ \A k \in DOMAIN pageResults : FileHas(pageResults[k])

\* C2: a run ended by the signal never takes the fatal-error path: run
\* returns nil and the exit status is not 1.
C2_CancelIsNeverFatal ==
    (cancelled /\ fetchCalls # <<>> /\ pc \in {"fatal", "returned"}) =>
        (pc = "returned" /\ exit # 1)

\* C3: once a page answered NextPage == 0, no further repository search is
\* issued.
C3_NoFetchAfterLastPage == ~(pc = "fetch" /\ nextPage = 0)

\* C4: when the repository search fails after a completed page, the results
\* of the completed pages are in the cache file.
C4_SearchErrorKeepsCompletedPages ==
    (pc = "fatal" /\ ~cancelled /\ Len(fetchCalls) >= 2) =>
        /\ \A k \in DOMAIN loaded : FileHas(loaded[k])
        /\ \A k \in DOMAIN results : FileHas(results[k])

\* C5: a repository of the loaded cache is never inspected, and a persisted
\* file holds for it exactly the loaded entry.
C5_CachedNeverInspectedNorChanged ==
    \A k \in DOMAIN loaded :
        /\ k \notin inspected
        /\ ~(pc \in InspectPcs /\ repo.name = k)
        /\ persisted =>
             /\ FileHas(loaded[k])
             /\ \A i \in DOMAIN file :
                  file[i][1] = k => file[i] = CsvRecord(loaded[k])

\* a cached repository whose star count differs from the candidate's was
\* skipped, and the file was rewritten with its loaded entry
C5_Witness ==
    /\ persisted
    /\ lastSkip[2] = "cached"
    /\ lastSkip[1] \in DOMAIN loaded
    /\ loaded[lastSkip[1]].stars # StargazersCount[lastSkip[1]]
    /\ FileHas(loaded[lastSkip[1]])
    /\ Len(file) = 2

\* C6: an archived, disabled or forked candidate is never inspected and so
\* never recorded; the loaded entry of such a repository is still written.
C6_IneligibleNeverInspected ==
    /\ pc \in InspectPcs => ~(repo.archived \/ repo.disabled \/ repo.fork)
    /\ lastSkip[2] = "ineligible" => repo = NoRepo
    /\ (persisted /\ lastSkip[2] = "ineligible" /\ lastSkip[1] \in DOMAIN loaded)
          => FileHas(loaded[lastSkip[1]])

\* an ineligible candidate that is in the loaded cache was skipped, and the
\* file was rewritten
C6_Witness ==
    /\ persisted
    /\ lastSkip[2] = "ineligible"
    /\ lastSkip[1] \in DOMAIN loaded
    /\ FileHas(loaded[lastSkip[1]])

\* C7: the recorded used flag is true exactly when a downloaded and parsed
\* go.mod of the repository has a direct requirement of the package.
C7_UsedIffDirectRequirement ==
    /\ pc = "files" => used = directSeen
    /\ pc = "repoSleep" =>
         /\ repo.name \in DOMAIN pageResults
         /\ pageResults[repo.name].used = directSeen

\* a repository whose manifests name the package only as indirect was
\* recorded as not used
C7_Witness ==
    /\ pc = "repoSleep"
    /\ indirectSeen /\ ~directSeen
    /\ ~pageResults[repo.name].used

\* C8: the rows of a persisted file are in non-increasing order of stars.
C8_RowsSortedByStars ==
    persisted =>
        \A i, j \in DOMAIN file : i < j => RowStars(file[i]) >= RowStars(file[j])

\* a new result with more stars was written before a loaded entry
C8_Witness ==
    /\ persisted
    /\ Len(file) = 2
    /\ file[1][1] \notin DOMAIN loaded
    /\ file[2][1] \in DOMAIN loaded
    /\ RowStars(file[1]) > RowStars(file[2])

\* C9 as stated: the row sequence is determined by the merged map, so every
\* persist of that map writes the sequence that was written.
C9_PersistIsDeterministic ==
    persisted => Persists(cache) = {file}

\* C9 amended: every persist of the merged map writes one row per key and
\* the same sequence of star counts; only rows with equal stars can change
\* places.
C9_PersistDeterministicUpToTies ==
    persisted =>
        \A alt \in Persists(cache) :
            /\ Len(alt) = Cardinality(DOMAIN cache)
            /\ { alt[i] : i \in DOMAIN alt } = { CsvRecord(cache[k]) : k \in DOMAIN cache }
            /\ Len(alt) = Len(file)
            /\ \A i \in DOMAIN alt : RowStars(alt[i]) = RowStars(file[i])

\* two rows with equal stars were written, and another persist of the same
\* map writes them the other way round
C9_Witness ==
    /\ persisted
    /\ Len(file) = 2
    /\ RowStars(file[1]) = RowStars(file[2])
    /\ << file[2], file[1] >> \in Persists(cache)

C11_MergeIsCommutative ==
    (pc = "scanLoop" /\ Len(fetchCalls) = 2) =>
        UpdateResults(UpdateResults(EmptyMap, results), pageResults)
          = UpdateResults(UpdateResults(EmptyMap, pageResults), results)

\* C12: a repository whose inspection had a call ended by the cancellation
\* gets no result.
C12_NoResultForInterruptedInspection ==
    pc = "repoSleep" => ~interrupted

C14_DelayAfterEveryInspection ==
    [][ (pc \in {"codeSearch", "files"} /\ ~cancelled)
            => pc' \in {"codeSearch", "files", "repoSleep"} ]_vars

\* C15: no page is requested twice by the calls of Search.Repositories of
\* a run.
C15_NoPageFetchedTwice ==
    \A i, j \in DOMAIN fetchCalls : i # j => fetchCalls[i] # fetchCalls[j]

\* C17: once a go.mod of the repository gave a direct requirement of the
\* package, no further go.mod of the repository is downloaded.
C17_StopsAtFirstDirectMatch ==
    [][ (pc = "files" /\ used) => fidx' = fidx ]_vars

\* C18: once the context is cancelled the goroutine ends, and on the way it
\* issues no further Search.Repositories call and starts no further
\* inspection.
C18_CancelledPipelineReturns ==
    /\ cancelled ~> (pc \in {"returned", "fatal"})
    /\ [][ cancelled => /\ fetchCalls' = fetchCalls
                        /\ ~(pc = "scanLoop" /\ pc' = "codeSearch") ]_vars

\* the signal came during the search and run returned after rewriting the
\* file
C18_Witness ==
    /\ cancelled
    /\ pc = "returned"
    /\ fetchCalls # <<>>
    /\ persisted

\* C19: up to the merge of lines 135-140 the cache is the map that was
\* loaded, whatever Search has accumulated, and a repository is skipped as
\* cached only if it was loaded.
C19_CacheFrozenDuringSearch ==
    /\ ~persisted => cache = loaded
    /\ lastSkip[2] = "cached" => lastSkip[1] \in DOMAIN loaded
    /\ (lastSkip[2] = "cached" /\ ~persisted) => lastSkip[1] \in DOMAIN cache

\* a repository was skipped as cached after a page's results had been
\* merged into the accumulated results
C19_Witness ==
    /\ lastSkip[2] = "cached"
    /\ results # EmptyMap
    /\ cache = loaded
    /\ ~persisted

\* C20: Search.Code is not issued again for a repository that an earlier
\* page of the run was inspected for and got its result.
C20_InspectedAtMostOnce ==
    [][ (pc = "scanLoop" /\ pc' = "codeSearch")
            => repo'.name \notin DOMAIN results ]_vars

====
